---- MODULE Spec2Model ----
(***************************************************************************)
(* Model of the submission hook (useSubmission.submit) and of the mock     *)
(* endpoint with its idempotency store (submitToMockApi).                 *)
(*                                                                         *)
(* One step of the model is one run-to-completion piece of JavaScript:    *)
(* the code between two awaits.  The synchronous prefix of               *)
(* submitToMockApi (store lookup, random decision, record creation) runs  *)
(* in the same step as the code of submit that calls it; the code after   *)
(* `await submitToMockApi` is a step of its own, and so is the code after *)
(* each setTimeout.  Time is in milliseconds.  The callers of submit are    *)
(* arbitrary: a call may arrive whenever no promise continuation is due.   *)
(***************************************************************************)
EXTENDS Integers, Sequences, FiniteSets, TLC

\* ---------------------------------------------------------------- constants
MAX_RETRIES == 3
RETRY_DELAY == 2000

\* DEFAULT_CONFIG; the rates are in percent (0.4 is 40)
successRate == 40
failureRate == 30
delayedRate == 30
minDelay == 5000
maxDelay == 10000

\* ------------------------------------------------------------------- bounds
MaxSubs == 2            \* accepted submit calls in one behaviour of Spec
MaxWideSubs == 3        \* the same, of WideSpec
MaxFaultSubs == 1       \* the same, of FaultSpec
MaxLiveSubs == 1        \* the same, of FairSpec
TickMs == 500           \* largest step of the clock
MaxSubmitTime == 500    \* up to here the clock moves in steps of TickMs

\* ------------------------------------------------------------------- inputs
Emails == {"a@x.com", "b@x.com"}
Amounts == {50, 75}
\* two requests of one identity, and one request of another identity
FormDatas ==
    {formData \in [email : Emails, amount : Amounts] :
         formData.email = "a@x.com" \/ formData.amount = 50}

\* values of Math.random() in percent: one per branch of the decision
RandomDraws == {20, 55, 85}
\* values of the second Math.random() (the delay), in percent
DelayDraws == {0, 90}
\* what `await submitToMockApi(...)` does: the endpoint of this repository
\* always returns a response; where several submissions run, the delay is the
\* shortest one
CallInputs == [throws : {FALSE}, random : RandomDraws, random2 : {0}]
\* an endpoint that may also reject the call (a network error)
LiveCallInputs ==
    CallInputs \cup [throws : {TRUE}, random : {0}, random2 : {0}]
\* the same with long and short delays
FaultyCallInputs ==
    [throws : {FALSE}, random : RandomDraws, random2 : DelayDraws]
        \cup [throws : {TRUE}, random : {0}, random2 : {0}]

Undefined == "undefined"
Null == "null"
NoSubmission == [status |-> "null"]
NoResponse == [kind |-> "none"]

\* -------------------------------------------------------------------- state
VARIABLES
    now,                      \* Date.now()
    idempotencyStore,         \* Map<string, Submission>: a function on its keys
    submissions,              \* useState: successful submissions, newest first
    isSubmitting,             \* useState
    error,                    \* useState: string or Null
    currentSubmission,        \* useState: Submission or NoSubmission
    submissionInProgressRef,  \* useRef: string or Null
    subs,                     \* the locals of each accepted submit call
    hist                      \* per accepted submit call: what it has done so far

vars == <<now, idempotencyStore, submissions, isSubmitting, error,
          currentSubmission, submissionInProgressRef, subs, hist>>

hookState == <<submissions, isSubmitting, error, currentSubmission,
               submissionInProgressRef>>

Min(S) == CHOOSE x \in S : \A y \in S : x <= y

\* ---------------------------------------------------------- pure functions
\* generateIdempotencyKey rounding to the nearest second (Math.round)
generateIdempotencyKey_Round(email, timestamp) ==
    LET roundedTimestamp == ((timestamp + 500) \div 1000) * 1000
    IN  email \o ":" \o ToString(roundedTimestamp)

\* generateIdempotencyKey: `${email}:${Math.floor(timestamp / 1000) * 1000}`
generateIdempotencyKey(email, timestamp) ==
    LET roundedTimestamp == (timestamp \div 1000) * 1000
    IN  email \o ":" \o ToString(roundedTimestamp)

\* const currentKey = `${formData.email}:${formData.amount}`
currentKeyOf(formData) ==
    formData.email \o ":" \o ToString(formData.amount)

\* the key of a retry derived anew from the time of the call
CallKey_Rederived(sub, t) == generateIdempotencyKey(sub.formData.email, t)

\* the idempotencyKey argument of `submitToMockApi(formData, idempotencyKey)`
\* inside the loop: the const computed once before the loop, whatever the
\* time t of the call
CallKey(sub, t) == sub.idempotencyKey

\* if (submissionInProgressRef.current === currentKey)
AlreadyInProgress(ref, currentKey) == ref = currentKey

\* the lookup left out
StoreHas_Never(store, key) == FALSE

\* idempotencyStore.has(key)
StoreHas(store, key) == key \in DOMAIN store

\* idempotencyStore.set(key, submission)
StoreSet(store, key, submission) ==
    [k \in DOMAIN store \cup {key} |-> IF k = key THEN submission ELSE store[k]]

\* the three flags of the random decision; a draw below successRate sets
\* isFailure as well as isSuccess
isSuccess(random) == random < successRate
isFailure(random) == random < successRate + failureRate
isDelayed(random) == ~isSuccess(random) /\ ~isFailure(random)

\* the delay drawn from [minDelay, minDelay + maxDelay)
DelayOf_Long(random2) == (random2 * maxDelay) \div 100 + minDelay

\* Math.random() * (maxDelay - minDelay) + minDelay
DelayOf(random2) == (random2 * (maxDelay - minDelay)) \div 100 + minDelay

\* the record submitToMockApi creates on a cache miss; the id is
\* `${Date.now()}-${random string}`: the time and a string no other call draws
NewSubmission(formData, t, nonce) ==
    [email |-> formData.email, amount |-> formData.amount,
     id |-> <<t, nonce>>, timestamp |-> t,
     status |-> "pending", retryCount |-> 0, errorMessage |-> Undefined]

\* pendingSubmission of submit
PendingSubmission(formData, t, nonce) ==
    [email |-> formData.email, amount |-> formData.amount,
     id |-> <<t, nonce>>, timestamp |-> t,
     status |-> "pending", retryCount |-> 0, errorMessage |-> Undefined]

\* the spread written last, so that the count of the endpoint's record wins
SuccessSubmission_DataLast(data, retryCount) ==
    [data EXCEPT !.status = "success"]

\* { ...response.data, retryCount, status: "success" }
SuccessSubmission(data, retryCount) ==
    [data EXCEPT !.retryCount = retryCount, !.status = "success"]

\* the retry snapshot keeping the number of the attempt that failed
RetrySubmission_SameCount(pendingSubmission, retryCount, message) ==
    [pendingSubmission EXCEPT !.status = "retry",
                              !.retryCount = retryCount,
                              !.errorMessage = message]

\* { ...pendingSubmission, status: "retry", retryCount: retryCount + 1, errorMessage }
RetrySubmission(pendingSubmission, retryCount, message) ==
    [pendingSubmission EXCEPT !.status = "retry",
                              !.retryCount = retryCount + 1,
                              !.errorMessage = message]

\* the failed snapshot without its retryCount
FailedSubmission_NoCount(pendingSubmission, retryCount, message) ==
    [pendingSubmission EXCEPT !.status = "error", !.errorMessage = message]

\* { ...pendingSubmission, status: "error", retryCount, errorMessage }
FailedSubmission(pendingSubmission, retryCount, message) ==
    [pendingSubmission EXCEPT !.status = "error",
                              !.retryCount = retryCount,
                              !.errorMessage = message]

\* the loop test with < for <=
LoopContinues_Strict(retryCount) == retryCount < MAX_RETRIES

\* while (retryCount <= MAX_RETRIES)
LoopContinues(retryCount) == retryCount <= MAX_RETRIES

\* the retry test with <= for <
CanRetry_OffByOne(retryCount) == retryCount <= MAX_RETRIES

\* the retry test with > for <
CanRetry_Inverted(retryCount) == retryCount > MAX_RETRIES

\* the retry test against a budget one short
CanRetry_Short(retryCount) == retryCount < MAX_RETRIES - 1

\* if (retryCount < MAX_RETRIES)
CanRetry(retryCount) == retryCount < MAX_RETRIES


\* ------------------------------------------------------------- the endpoint
\* submitToMockApi with the temporary failure committed like a success
ApiCallSync_CachesFailure(store, formData, key, nonce, random, random2) ==
    LET submission == NewSubmission(formData, now, nonce)
        done == [status |-> "success"] @@ submission
        failed == [status |-> "error",
                   errorMessage |-> "Temporary service failure (503)"]
                      @@ submission
    IN  IF StoreHas(store, key)
        THEN LET cached == store[key]
             IN  [store |-> store, pc |-> "resp",
                  response |-> [kind |-> "response",
                                success |-> cached.status = "success",
                                data |-> cached,
                                error |-> IF cached.status = "error"
                                          THEN cached.errorMessage
                                          ELSE Undefined],
                  submission |-> NoSubmission, deadline |-> 0, miss |-> FALSE]
        ELSE IF isDelayed(random)
        THEN [store |-> store, pc |-> "delayed", response |-> NoResponse,
              submission |-> submission,
              deadline |-> now + DelayOf(random2), miss |-> TRUE]
        ELSE IF isFailure(random)
        THEN [store |-> StoreSet(store, key, failed), pc |-> "resp",
              response |-> [kind |-> "response", success |-> FALSE,
                            data |-> NoSubmission,
                            error |-> "Service temporarily unavailable"],
              submission |-> NoSubmission, deadline |-> 0, miss |-> TRUE]
        ELSE [store |-> StoreSet(store, key, done), pc |-> "resp",
              response |-> [kind |-> "response", success |-> TRUE,
                            data |-> done, error |-> Undefined],
              submission |-> NoSubmission, deadline |-> 0, miss |-> TRUE]

\* The part of submitToMockApi that runs before its first await, for a call
\* that does not throw.  The result names the store after it, where the caller
\* continues ("resp": the promise is settled, "delayed": the call sleeps in
\* setTimeout), the response, the record the call holds and its wake-up time.
ApiCallSync(store, formData, key, nonce, random, random2) ==
    LET submission == NewSubmission(formData, now, nonce)
        done == [status |-> "success"] @@ submission
    IN  IF StoreHas(store, key)
        THEN LET cached == store[key]
             IN  [store |-> store, pc |-> "resp",
                  response |-> [kind |-> "response",
                                success |-> cached.status = "success",
                                data |-> cached,
                                error |-> IF cached.status = "error"
                                          THEN cached.errorMessage
                                          ELSE Undefined],
                  submission |-> NoSubmission, deadline |-> 0, miss |-> FALSE]
        ELSE IF isDelayed(random)
        THEN [store |-> store, pc |-> "delayed", response |-> NoResponse,
              submission |-> submission,
              deadline |-> now + DelayOf(random2), miss |-> TRUE]
        ELSE IF isFailure(random)
        THEN [store |-> store, pc |-> "resp",
              response |-> [kind |-> "response", success |-> FALSE,
                            data |-> NoSubmission,
                            error |-> "Service temporarily unavailable"],
              submission |-> NoSubmission, deadline |-> 0, miss |-> TRUE]
        ELSE [store |-> StoreSet(store, key, done), pc |-> "resp",
              response |-> [kind |-> "response", success |-> TRUE,
                            data |-> done, error |-> Undefined],
              submission |-> NoSubmission, deadline |-> 0, miss |-> TRUE]

\* `await submitToMockApi(formData, idempotencyKey)` as submit sees it: the
\* call above, or a rejected promise.  The endpoint in this repository has no
\* throw statement; the rejection is the input the catch clause of submit is
\* written for (err.message, or "Network error" for a non-Error value).
AwaitApi(store, formData, key, nonce, in) ==
    IF in.throws
    THEN [store |-> store, pc |-> "resp",
          response |-> [kind |-> "thrown", message |-> "Network error"],
          submission |-> NoSubmission, deadline |-> 0, miss |-> FALSE]
    ELSE ApiCallSync(store, formData, key, nonce, in.random, in.random2)

\* ------------------------------------------------------------------ helpers
Running(i) == subs[i].pc # "done"
Settled == {i \in 1..Len(subs) : subs[i].pc = "resp"}
Sleeping == {i \in 1..Len(subs) : subs[i].pc \in {"delayed", "wait"}}
Deadlines == {subs[i].deadline : i \in Sleeping}

\* what one endpoint call adds to the history of submission i
HistCall(h, r) ==
    [h EXCEPT !.calls = @ + 1,
              !.misses = @ + (IF r.miss THEN 1 ELSE 0),
              !.failed = @ + (IF r.pc = "resp" /\ (r.response.kind = "thrown"
                                  \/ ~r.response.success) THEN 1 ELSE 0),
              !.commits = @ + (IF r.pc = "resp" /\ r.miss
                                  /\ r.response.success THEN 1 ELSE 0)]

\* what an emitted snapshot adds to the history of submission i
HistSnap(h, snapshot) ==
    [h EXCEPT !.snap = snapshot,
              !.snaps = @ + 1,
              !.terminals = @ + (IF snapshot.status \in {"success", "error"}
                                 THEN 1 ELSE 0)]

\* --------------------------------------------------------------------- Init
Init ==
    /\ now = 0
    /\ idempotencyStore = << >>
    /\ submissions = << >>
    /\ isSubmitting = FALSE
    /\ error = Null
    /\ currentSubmission = NoSubmission
    /\ submissionInProgressRef = Null
    /\ subs = << >>
    /\ hist = << >>

\* ------------------------------------------------------------------ actions
\* submit's duplicate guard also dropping the isSubmitting flag
SubmitRejected_ClearsFlag(formData) ==
    /\ Settled = {}
    /\ AlreadyInProgress(submissionInProgressRef, currentKeyOf(formData))
    /\ error' = "Request already in progress. Please wait."
    /\ isSubmitting' = FALSE
    /\ UNCHANGED <<now, idempotencyStore, submissions, currentSubmission,
                   submissionInProgressRef, subs, hist>>

\* submit(formData), the duplicate check fails: the call is rejected
SubmitRejected(formData) ==
    /\ Settled = {}
    /\ AlreadyInProgress(submissionInProgressRef, currentKeyOf(formData))
    /\ error' = "Request already in progress. Please wait."
    /\ UNCHANGED <<now, idempotencyStore, submissions, isSubmitting,
                   currentSubmission, submissionInProgressRef, subs, hist>>

\* submit(formData), accepted: everything up to the first
\* `await submitToMockApi`, the synchronous prefix of that call included
Submit(max, formData, in) ==
    /\ Len(subs) < max
    /\ Settled = {}
    /\ ~AlreadyInProgress(submissionInProgressRef, currentKeyOf(formData))
    /\ LET i == Len(subs) + 1
           submissionTimestamp == now
           idempotencyKey ==
               generateIdempotencyKey(formData.email, submissionTimestamp)
           pendingSubmission ==
               PendingSubmission(formData, submissionTimestamp, <<"p", i, 0>>)
           r == AwaitApi(idempotencyStore, formData, idempotencyKey,
                         <<"r", i, 0>>, in)
           h0 == [snap |-> NoSubmission, snaps |-> 0, terminals |-> 0,
                  calls |-> 0, misses |-> 0, failed |-> 0,
                  commits |-> 0, added |-> 0,
                  got |-> NoSubmission, keys |-> {}]
       IN  /\ isSubmitting' = TRUE
           /\ error' = Null
           /\ submissionInProgressRef' = currentKeyOf(formData)
           /\ currentSubmission' = pendingSubmission
           /\ idempotencyStore' = r.store
           /\ subs' = Append(subs,
                  [formData |-> formData,
                   idempotencyKey |-> idempotencyKey,
                   pendingSubmission |-> pendingSubmission,
                   retryCount |-> 0,
                   pc |-> r.pc,
                   response |-> r.response,
                   submission |-> r.submission,
                   deadline |-> r.deadline])
           /\ hist' = Append(hist,
                  [HistCall(HistSnap(h0, pendingSubmission), r)
                       EXCEPT !.keys = @ \cup {idempotencyKey}])
    /\ UNCHANGED <<now, submissions>>

\* submitToMockApi after the delayed-success setTimeout: commit and return
ApiDelayElapsed(i) ==
    /\ i \in 1..Len(subs)
    /\ subs[i].pc = "delayed"
    /\ subs[i].deadline <= now
    /\ Settled = {}
    /\ LET submission == [status |-> "success"] @@ subs[i].submission
       IN  /\ idempotencyStore' =
                  StoreSet(idempotencyStore, subs[i].idempotencyKey, submission)
           /\ subs' = [subs EXCEPT ![i].pc = "resp",
                                   ![i].response =
                                       [kind |-> "response", success |-> TRUE,
                                        data |-> submission,
                                        error |-> Undefined],
                                   ![i].submission = NoSubmission,
                                   ![i].deadline = 0]
           /\ hist' = [hist EXCEPT ![i].commits = @ + 1]
    /\ UNCHANGED <<now, hookState>>


\* submit after `await submitToMockApi`: response.success && response.data
SubmitOnSuccess(i) ==
    /\ i \in 1..Len(subs)
    /\ subs[i].pc = "resp"
    /\ subs[i].response.kind = "response"
    /\ subs[i].response.success /\ subs[i].response.data # NoSubmission
    /\ LET successSubmission ==
               SuccessSubmission(subs[i].response.data, subs[i].retryCount)
       IN  /\ submissions' = <<successSubmission>> \o submissions
           /\ currentSubmission' = successSubmission
           /\ submissionInProgressRef' = Null
           /\ isSubmitting' = FALSE
           /\ subs' = [subs EXCEPT ![i].pc = "done",
                                   ![i].response = NoResponse]
           /\ hist' = [hist EXCEPT
                  ![i] = [HistSnap(@, successSubmission) EXCEPT
                              !.added = @ + 1,
                              !.got = subs[i].response.data]]
    /\ UNCHANGED <<now, idempotencyStore, error>>

\* the exits of submit with the give-up path leaving the in-flight marker set
RetryOrFail_KeepsRef(i, lastError, retryMessage, failedMessage) ==
    IF CanRetry(subs[i].retryCount)
    THEN LET retrySubmission ==
                 RetrySubmission(subs[i].pendingSubmission,
                                 subs[i].retryCount, retryMessage)
         IN  /\ currentSubmission' = retrySubmission
             /\ subs' = [subs EXCEPT ![i].pc = "wait",
                                     ![i].response = NoResponse,
                                     ![i].deadline = now + RETRY_DELAY]
             /\ hist' = [hist EXCEPT ![i] = HistSnap(@, retrySubmission)]
             /\ UNCHANGED <<error, submissionInProgressRef, isSubmitting>>
    ELSE LET failedSubmission ==
                 FailedSubmission(subs[i].pendingSubmission,
                                  subs[i].retryCount, failedMessage)
         IN  /\ currentSubmission' = failedSubmission
             /\ error' = "Submission failed: " \o lastError
             /\ isSubmitting' = FALSE
             /\ subs' = [subs EXCEPT ![i].pc = "done",
                                     ![i].response = NoResponse]
             /\ hist' = [hist EXCEPT ![i] = HistSnap(@, failedSubmission)]
             /\ UNCHANGED submissionInProgressRef

\* the two exits shared by the else branch and the catch clause of submit:
\* retry after RETRY_DELAY, or give up
RetryOrFail(i, lastError, retryMessage, failedMessage) ==
    IF CanRetry(subs[i].retryCount)
    THEN LET retrySubmission ==
                 RetrySubmission(subs[i].pendingSubmission,
                                 subs[i].retryCount, retryMessage)
         IN  /\ currentSubmission' = retrySubmission
             /\ subs' = [subs EXCEPT ![i].pc = "wait",
                                     ![i].response = NoResponse,
                                     ![i].deadline = now + RETRY_DELAY]
             /\ hist' = [hist EXCEPT ![i] = HistSnap(@, retrySubmission)]
             /\ UNCHANGED <<error, submissionInProgressRef, isSubmitting>>
    ELSE LET failedSubmission ==
                 FailedSubmission(subs[i].pendingSubmission,
                                  subs[i].retryCount, failedMessage)
         IN  /\ currentSubmission' = failedSubmission
             /\ error' = "Submission failed: " \o lastError
             /\ submissionInProgressRef' = Null
             /\ isSubmitting' = FALSE
             /\ subs' = [subs EXCEPT ![i].pc = "done",
                                     ![i].response = NoResponse]
             /\ hist' = [hist EXCEPT ![i] = HistSnap(@, failedSubmission)]

\* submit after `await submitToMockApi`: the API returned an error
SubmitOnFailure(i) ==
    /\ i \in 1..Len(subs)
    /\ subs[i].pc = "resp"
    /\ subs[i].response.kind = "response"
    /\ ~(subs[i].response.success /\ subs[i].response.data # NoSubmission)
    /\ LET lastError == IF subs[i].response.error # Undefined
                        THEN subs[i].response.error
                        ELSE "Unknown error occurred"
       IN  RetryOrFail(i, lastError,
                       "Failed: " \o lastError \o ". Retrying...",
                       "Failed after " \o ToString(MAX_RETRIES)
                           \o " retries: " \o lastError)
    /\ UNCHANGED <<now, idempotencyStore, submissions>>

\* the catch clause giving up at the first fault instead of retrying
SubmitOnFault_Terminal(i) ==
    /\ i \in 1..Len(subs)
    /\ subs[i].pc = "resp"
    /\ subs[i].response.kind = "thrown"
    /\ LET errorMsg == subs[i].response.message
           failedSubmission ==
               FailedSubmission(subs[i].pendingSubmission, subs[i].retryCount,
                                "Error after " \o ToString(MAX_RETRIES)
                                    \o " retries: " \o errorMsg)
       IN  /\ currentSubmission' = failedSubmission
           /\ error' = "Submission failed: " \o errorMsg
           /\ submissionInProgressRef' = Null
           /\ isSubmitting' = FALSE
           /\ subs' = [subs EXCEPT ![i].pc = "done",
                                   ![i].response = NoResponse]
           /\ hist' = [hist EXCEPT ![i] = HistSnap(@, failedSubmission)]
    /\ UNCHANGED <<now, idempotencyStore, submissions>>

\* submit after `await submitToMockApi`: the catch clause
SubmitOnFault(i) ==
    /\ i \in 1..Len(subs)
    /\ subs[i].pc = "resp"
    /\ subs[i].response.kind = "thrown"
    /\ LET errorMsg == subs[i].response.message
       IN  RetryOrFail(i, errorMsg,
                       "Error: " \o errorMsg \o ". Retrying...",
                       "Error after " \o ToString(MAX_RETRIES)
                           \o " retries: " \o errorMsg)
    /\ UNCHANGED <<now, idempotencyStore, submissions>>

\* the retry made without waiting for the RETRY_DELAY timer
RetryTimerFires_Early(i, in) ==
    /\ i \in 1..Len(subs)
    /\ subs[i].pc = "wait"
    /\ Settled = {}
    /\ LET retryCount == subs[i].retryCount + 1
           idempotencyKey == CallKey(subs[i], now)
           r == AwaitApi(idempotencyStore, subs[i].formData,
                         idempotencyKey, <<"r", i, retryCount>>, in)
       IN  IF LoopContinues(retryCount)
           THEN /\ idempotencyStore' = r.store
                /\ subs' = [subs EXCEPT ![i].retryCount = retryCount,
                                        ![i].pc = r.pc,
                                        ![i].response = r.response,
                                        ![i].submission = r.submission,
                                        ![i].deadline = r.deadline]
                /\ hist' = [hist EXCEPT
                       ![i] = [HistCall(@, r) EXCEPT
                                   !.keys = @ \cup {idempotencyKey}]]
           ELSE /\ subs' = [subs EXCEPT ![i].retryCount = retryCount,
                                        ![i].pc = "done",
                                        ![i].deadline = 0]
                /\ UNCHANGED <<idempotencyStore, hist>>
    /\ UNCHANGED <<now, hookState>>

\* submit after the RETRY_DELAY setTimeout: retryCount++, the loop test, and
\* the next `await submitToMockApi` with its synchronous prefix
RetryTimerFires(i, in) ==
    /\ i \in 1..Len(subs)
    /\ subs[i].pc = "wait"
    /\ subs[i].deadline <= now
    /\ Settled = {}
    /\ LET retryCount == subs[i].retryCount + 1
           idempotencyKey == CallKey(subs[i], now)
           r == AwaitApi(idempotencyStore, subs[i].formData,
                         idempotencyKey, <<"r", i, retryCount>>, in)
       IN  IF LoopContinues(retryCount)
           THEN /\ idempotencyStore' = r.store
                /\ subs' = [subs EXCEPT ![i].retryCount = retryCount,
                                        ![i].pc = r.pc,
                                        ![i].response = r.response,
                                        ![i].submission = r.submission,
                                        ![i].deadline = r.deadline]
                /\ hist' = [hist EXCEPT
                       ![i] = [HistCall(@, r) EXCEPT
                                   !.keys = @ \cup {idempotencyKey}]]
           ELSE /\ subs' = [subs EXCEPT ![i].retryCount = retryCount,
                                        ![i].pc = "done",
                                        ![i].deadline = 0]
                /\ UNCHANGED <<idempotencyStore, hist>>
    /\ UNCHANGED <<now, hookState>>

\* clearError()
clearError ==
    /\ Settled = {}
    /\ error # Null
    /\ error' = Null
    /\ UNCHANGED <<now, idempotencyStore, submissions, isSubmitting,
                   currentSubmission, submissionInProgressRef, subs, hist>>

\* Time passes.  A settled promise is continued before any time passes and a
\* timer fires when it is due, so the clock stops at the earliest wake-up time.
\* The clock starts with the first submit call (time 0 is the second in which
\* it arrives).  Up to MaxSubmitTime the clock moves in steps of TickMs, so that
\* submit calls arrive at several instants of one second; after it, it moves
\* from one wake-up time to the next.
Tick ==
    /\ Settled = {}
    /\ Deadlines # {}
    /\ \A d \in Deadlines : now < d
    /\ now' = IF now < MaxSubmitTime
              THEN Min({now + TickMs} \cup Deadlines)
              ELSE Min(Deadlines)
    /\ UNCHANGED <<idempotencyStore, hookState, subs, hist>>

\* ------------------------------------------------------------ specifications
\* the hook and the endpoint of the repository, MaxSubs accepted submit calls
Next ==
    \/ \E formData \in FormDatas : SubmitRejected(formData)
    \/ \E formData \in FormDatas, in \in CallInputs :
           Submit(MaxSubs, formData, in)
    \/ \E i \in 1..MaxSubs : ApiDelayElapsed(i)
    \/ \E i \in 1..MaxSubs : SubmitOnSuccess(i)
    \/ \E i \in 1..MaxSubs : SubmitOnFailure(i)
    \/ \E i \in 1..MaxSubs, in \in CallInputs : RetryTimerFires(i, in)
    \/ clearError
    \/ Tick

Spec == Init /\ [][Next]_vars

\* the same with MaxWideSubs accepted submit calls
NextWide ==
    \/ \E formData \in FormDatas : SubmitRejected(formData)
    \/ \E formData \in FormDatas, in \in CallInputs :
           Submit(MaxWideSubs, formData, in)
    \/ \E i \in 1..MaxWideSubs : ApiDelayElapsed(i)
    \/ \E i \in 1..MaxWideSubs : SubmitOnSuccess(i)
    \/ \E i \in 1..MaxWideSubs : SubmitOnFailure(i)
    \/ \E i \in 1..MaxWideSubs, in \in CallInputs : RetryTimerFires(i, in)
    \/ clearError
    \/ Tick

WideSpec == Init /\ [][NextWide]_vars

\* the hook against an endpoint that may reject calls and that draws its
\* delay from the whole of DelayDraws
NextFault ==
    \/ \E formData \in FormDatas : SubmitRejected(formData)
    \/ \E formData \in FormDatas, in \in FaultyCallInputs :
           Submit(MaxFaultSubs, formData, in)
    \/ \E i \in 1..MaxFaultSubs : ApiDelayElapsed(i)
    \/ \E i \in 1..MaxFaultSubs : SubmitOnSuccess(i)
    \/ \E i \in 1..MaxFaultSubs : SubmitOnFailure(i)
    \/ \E i \in 1..MaxFaultSubs : SubmitOnFault(i)
    \/ \E i \in 1..MaxFaultSubs, in \in FaultyCallInputs : RetryTimerFires(i, in)
    \/ clearError
    \/ Tick

FaultSpec == Init /\ [][NextFault]_vars

\* the hook against an endpoint that may reject calls, when timers fire,
\* promise continuations run and time passes
NextLive ==
    \/ \E formData \in FormDatas : SubmitRejected(formData)
    \/ \E formData \in FormDatas, in \in LiveCallInputs :
           Submit(MaxLiveSubs, formData, in)
    \/ \E i \in 1..MaxLiveSubs : ApiDelayElapsed(i)
    \/ \E i \in 1..MaxLiveSubs : SubmitOnSuccess(i)
    \/ \E i \in 1..MaxLiveSubs : SubmitOnFailure(i)
    \/ \E i \in 1..MaxLiveSubs : SubmitOnFault(i)
    \/ \E i \in 1..MaxLiveSubs, in \in LiveCallInputs : RetryTimerFires(i, in)
    \/ clearError
    \/ Tick

Fairness ==
    /\ WF_vars(Tick)
    /\ \A i \in 1..MaxLiveSubs :
           /\ WF_vars(ApiDelayElapsed(i))
           /\ WF_vars(SubmitOnSuccess(i))
           /\ WF_vars(SubmitOnFailure(i))
           /\ WF_vars(SubmitOnFault(i))
           /\ WF_vars(\E in \in LiveCallInputs : RetryTimerFires(i, in))

FairSpec == Init /\ [][NextLive]_vars /\ Fairness

\* --------------------------------------------------------------- properties
Subs == 1..Len(subs)
tokenOf(i) == currentKeyOf(subs[i].formData)
Terminal(i) == hist[i].snap.status \in {"success", "error"}

\* C1: a key that has a record in the idempotency store is never written
\* again: the store keeps the record of every key it holds.
C1_StoreNeverOverwritten ==
    [][\A k \in DOMAIN idempotencyStore :
           /\ k \in DOMAIN idempotencyStore'
           /\ idempotencyStore'[k] = idempotencyStore[k]]_vars

\* C2: all Success outcomes the endpoint returned for one idempotency key
\* carry the same record id.
C2_OneRecordPerKey ==
    \A i, j \in Subs :
        /\ subs[i].idempotencyKey = subs[j].idempotencyKey
        /\ hist[i].got # NoSubmission
        /\ hist[j].got # NoSubmission
        => hist[i].got.id = hist[j].got.id

\* C3: no submit call is accepted while an earlier accepted call with the
\* same identity+amount has not reached its terminal state, i.e. two accepted
\* submissions with one token never run at the same time.
C3_DuplicateRejected ==
    \A i, j \in Subs :
        i < j /\ tokenOf(i) = tokenOf(j) => ~(Running(i) /\ Running(j))

\* C4: every accepted submission that has not reached its terminal state
\* has its identity+amount token marked in flight.
C4_TokenStaysMarked ==
    \A i \in Subs : Running(i) => submissionInProgressRef = tokenOf(i)

\* C5: two endpoint calls for one idempotency key are never both past the
\* cache-miss branch with their commit still ahead.
C5_MissBranchExclusive ==
    \A i, j \in Subs :
        /\ i # j
        /\ subs[i].idempotencyKey = subs[j].idempotencyKey
        => ~(subs[i].pc = "delayed" /\ subs[j].pc = "delayed")

\* C6: a submission whose endpoint call number k+1 returned Success, the k
\* calls before it having failed, ends Succeeded with retryCount k, and the
\* store holds a record for its idempotency key.
C6_SucceededWithAttempt ==
    \A i \in Subs :
        hist[i].got # NoSubmission =>
            /\ subs[i].pc = "done"
            /\ hist[i].snap.status = "success"
            /\ hist[i].failed = hist[i].calls - 1
            /\ hist[i].snap.retryCount = hist[i].failed
            /\ hist[i].snap.retryCount <= MAX_RETRIES
            /\ StoreHas(idempotencyStore, subs[i].idempotencyKey)

C6_Witness ==
    \E i \in Subs :
        /\ hist[i].got # NoSubmission
        /\ hist[i].snap.status = "success"
        /\ hist[i].snap.retryCount = 2

\* C7: a submission whose MAX_RETRIES+1 endpoint calls all failed (failure
\* response or raised fault) ends Failed once the last failure is handled; it
\* has committed nothing to the store and added nothing to the submissions.
C7_FailedAfterAllAttempts ==
    \A i \in Subs :
        hist[i].failed = MAX_RETRIES + 1 /\ subs[i].pc # "resp" =>
            /\ subs[i].pc = "done"
            /\ hist[i].snap.status = "error"
            /\ hist[i].commits = 0
            /\ hist[i].added = 0
            /\ \A n \in 1..Len(submissions) :
                   submissions[n].id[2][2] # i

C7_Witness ==
    \E i \in Subs :
        /\ hist[i].failed = MAX_RETRIES + 1
        /\ subs[i].pc = "done"
        /\ hist[i].snap.status = "error"
        /\ hist[i].snap.errorMessage = "Error after 3 retries: Network error"

\* C8: every accepted submit eventually emits its terminal snapshot
\* (Succeeded or Failed), when timers fire and endpoint calls return.
C8_EventuallyTerminal ==
    \A i \in 1..MaxLiveSubs :
        (Len(subs) >= i) ~> (Len(subs) >= i /\ Terminal(i) /\ subs[i].pc = "done")

C8_Witness ==
    \E i \in Subs : Terminal(i) /\ subs[i].pc = "done" /\ hist[i].calls = 3

\* C9: a submission emits one terminal snapshot and nothing after it: once
\* the snapshot is Succeeded or Failed the submission emits no snapshot and
\* makes no endpoint call, and the status moves only pending -> retry,
\* retry -> retry, pending or retry -> success, retry -> error.
StatusMoves ==
    {<<"pending", "retry">>, <<"retry", "retry">>, <<"pending", "success">>,
     <<"retry", "success">>, <<"retry", "error">>}

C10_AttemptMonotoneBounded ==
    /\ [](\A i \in Subs : hist[i].snap.retryCount \in 0..MAX_RETRIES)
    /\ [][\A i \in Subs :
              hist'[i].snap.retryCount >= hist[i].snap.retryCount]_vars

C10_Witness ==
    \E i \in Subs :
        /\ hist[i].snap.status = "error"
        /\ hist[i].snap.retryCount = MAX_RETRIES
        /\ hist[i].snaps = MAX_RETRIES + 2


\* C11: a submission makes at most MAX_RETRIES+1 endpoint calls; when it has
\* terminated it has made retryCount+1 calls, and it is Failed only after
\* MAX_RETRIES+1 calls.
C11_CallBudget ==
    \A i \in Subs :
        /\ hist[i].calls <= MAX_RETRIES + 1
        /\ subs[i].pc = "done" =>
               /\ Terminal(i)
               /\ hist[i].calls = hist[i].snap.retryCount + 1
        /\ hist[i].snap.status = "error" => hist[i].calls = MAX_RETRIES + 1

C11_Witness ==
    \E i, j \in Subs :
        /\ hist[i].snap.status = "error" /\ hist[i].calls = MAX_RETRIES + 1
        /\ hist[j].snap.status = "success" /\ hist[j].calls = 2

FailedBefore(i) == IF i \in Subs THEN hist[i].failed ELSE 0
CallsBefore(i) == IF i \in Subs THEN hist[i].calls ELSE 0
MissesBefore(i) == IF i \in Subs THEN hist[i].misses ELSE 0

C14_FailuresNotCached ==
    /\ [](\A key \in DOMAIN idempotencyStore :
              idempotencyStore[key].status = "success")
    /\ [][\A i \in 1..Len(subs') :
              /\ hist'[i].failed > FailedBefore(i) =>
                     idempotencyStore' = idempotencyStore
              /\ /\ hist'[i].calls > CallsBefore(i)
                 /\ ~StoreHas(idempotencyStore, subs'[i].idempotencyKey)
                 => hist'[i].misses = MissesBefore(i) + 1]_vars

C14_Witness ==
    \E i \in Subs :
        /\ hist[i].failed = 2
        /\ hist[i].misses = 3
        /\ hist[i].commits = 1
        /\ StoreHas(idempotencyStore, subs[i].idempotencyKey)


\* C15: a submit rejected by the duplicate guard has no effect besides the
\* error message: no endpoint call, no snapshot, and the clock, the store, the
\* submissions list, isSubmitting, the current snapshot, the in-flight marker
\* and every running submission stay as they were; a submit that does start a
\* submission is never one the guard rejects.
RejectedMessage == "Request already in progress. Please wait."

C15_RejectedSubmitHasNoEffect ==
    [][/\ (error' = RejectedMessage /\ error # RejectedMessage) =>
              /\ \E formData \in FormDatas :
                     AlreadyInProgress(submissionInProgressRef,
                                       currentKeyOf(formData))
              /\ UNCHANGED <<now, idempotencyStore, submissions, isSubmitting,
                             currentSubmission, submissionInProgressRef,
                             subs, hist>>
       /\ Len(subs') > Len(subs) =>
              ~AlreadyInProgress(submissionInProgressRef,
                                 currentKeyOf(subs'[Len(subs')].formData))]_vars

C15_Witness ==
    /\ error = RejectedMessage
    /\ Len(subs) = 1
    /\ hist[1].calls = 1
    /\ hist[1].snap.status = "success"
    /\ Len(submissions) = 1


\* C16: the in-flight marker is cleared on every exit path (success, failures
\* exhausted, faults exhausted): whenever no submission is running the marker
\* is empty and a submit of any form, a repeat of the same identity and amount
\* included, passes the duplicate guard; a marker that is set belongs to a
\* submission that is still running.
C16_MarkerClearedOnExit ==
    /\ (\A i \in Subs : ~Running(i)) =>
           /\ submissionInProgressRef = Null
           /\ \A formData \in FormDatas :
                  ~AlreadyInProgress(submissionInProgressRef,
                                     currentKeyOf(formData))
    /\ submissionInProgressRef # Null =>
           \E i \in Subs : Running(i) /\ tokenOf(i) = submissionInProgressRef

C16_Witness ==
    /\ Subs # {}
    /\ \A i \in Subs : ~Running(i)
    /\ submissionInProgressRef = Null
    /\ error = "Submission failed: Network error"
    /\ ~AlreadyInProgress(submissionInProgressRef,
                          currentKeyOf(subs[1].formData))


KeyOffsets == {1000, 1499, 2000}
SecondOf(t) == t - (t % 1000)

C19_NoDuplicateRecords ==
    \A m, n \in 1..Len(submissions) :
        submissions[m].id = submissions[n].id => m = n


\* C20: the idempotency key is derived once, from the submit time, and that
\* same key goes to every endpoint call of the submission, the retries made
\* seconds later included; a record the submission commits is stored under
\* that key even when the record itself is stamped with a later second.
CreatedBy(submission, i) == submission.id[2][1] = "r" /\ submission.id[2][2] = i

C20_OneKeyPerSubmission ==
    \A i \in Subs :
        LET key == generateIdempotencyKey(subs[i].formData.email,
                                          subs[i].pendingSubmission.timestamp)
        IN  /\ hist[i].keys = {key}
            /\ subs[i].idempotencyKey = key
            /\ \A k \in DOMAIN idempotencyStore :
                   CreatedBy(idempotencyStore[k], i) => k = key

C20_Witness ==
    \E i \in Subs :
        /\ hist[i].calls = MAX_RETRIES + 1
        /\ hist[i].keys = {"b@x.com:0"}
        /\ StoreHas(idempotencyStore, "b@x.com:0")
        /\ CreatedBy(idempotencyStore["b@x.com:0"], i)
        /\ idempotencyStore["b@x.com:0"].timestamp = 3 * RETRY_DELAY


\* C21: the snapshots of one submission are, in order, Pending with attempt 0,
\* then Retrying with attempt 1, 2, ..., k, one per failed attempt and carrying
\* that failure's detail, then one terminal snapshot with attempt k.  An
\* in-flight snapshot is Pending exactly when its attempt is 0.  After n
\* snapshots an in-flight submission shows attempt n - 1, a terminal one n - 2.
InFlight(snapshot) == snapshot.status \in {"pending", "retry"}
FailureDetail(response) ==
    IF response.kind = "thrown"
    THEN "Error: " \o response.message
    ELSE "Failed: " \o response.error

C21_SnapshotOrder ==
    /\ [](\A i \in Subs :
              LET snap == hist[i].snap
              IN  /\ InFlight(snap) =>
                         /\ snap.status = "pending" <=> snap.retryCount = 0
                         /\ hist[i].snaps = snap.retryCount + 1
                  /\ ~InFlight(snap) =>
                         /\ snap.status \in {"success", "error"}
                         /\ hist[i].snaps = snap.retryCount + 2
                         /\ hist[i].terminals = 1)
    /\ [][/\ Len(subs') > Len(subs) =>
                 /\ hist'[Len(subs')].snaps = 1
                 /\ hist'[Len(subs')].snap.status = "pending"
                 /\ hist'[Len(subs')].snap.retryCount = 0
          /\ \A i \in Subs :
                 hist'[i].snaps # hist[i].snaps =>
                     /\ hist'[i].snaps = hist[i].snaps + 1
                     /\ InFlight(hist[i].snap)
                     /\ hist'[i].snap.status # "pending"
                     /\ hist'[i].snap.status = "retry" =>
                            /\ hist'[i].snap.retryCount
                                   = hist[i].snap.retryCount + 1
                            /\ hist'[i].snap.errorMessage
                                   = FailureDetail(subs[i].response)
                                         \o ". Retrying..."
                            /\ hist'[i].failed = hist'[i].snap.retryCount
                     /\ hist'[i].snap.status \in {"success", "error"} =>
                            hist'[i].snap.retryCount
                                = hist[i].snap.retryCount]_vars

C21_Witness ==
    \E i \in Subs :
        /\ hist[i].snaps = 4
        /\ hist[i].failed = 2
        /\ hist[i].snap.status = "success"
        /\ hist[i].snap.retryCount = 2
        /\ hist[i].commits = 1
        /\ now >= 2 * RETRY_DELAY


\* C22: after a failure with attempt < MAX_RETRIES the Retrying snapshot is
\* emitted first and the next endpoint call of that submission comes
\* RETRY_DELAY later; a submission that has reached attempt k, and so one that
\* terminates with attempt k, has taken at least k * RETRY_DELAY since its
\* submit call.  The wait does not block: other submissions take steps
\* meanwhile.
SubmitTime(i) == subs[i].pendingSubmission.timestamp

C22_RetryAfterDelay ==
    /\ [](\A i \in Subs :
              /\ now - SubmitTime(i) >= subs[i].retryCount * RETRY_DELAY
              /\ Terminal(i) =>
                     now - SubmitTime(i)
                         >= hist[i].snap.retryCount * RETRY_DELAY
              /\ subs[i].pc = "wait" =>
                     /\ hist[i].snap.status = "retry"
                     /\ hist[i].snap.retryCount = subs[i].retryCount + 1
                     /\ subs[i].deadline
                            >= SubmitTime(i)
                                   + hist[i].snap.retryCount * RETRY_DELAY)
    /\ [][\A i \in Subs :
              /\ (subs[i].pc # "wait" /\ subs'[i].pc = "wait") =>
                     /\ hist'[i].snaps = hist[i].snaps + 1
                     /\ hist'[i].calls = hist[i].calls
                     /\ subs'[i].deadline = now + RETRY_DELAY
              /\ hist'[i].calls > hist[i].calls =>
                     /\ subs[i].pc = "wait"
                     /\ now >= subs[i].deadline
                     /\ now' = now]_vars

C22_Witness ==
    \E i, j \in Subs :
        /\ subs[i].pc = "wait"
        /\ now < subs[i].deadline
        /\ SubmitTime(j) > SubmitTime(i)
        /\ subs[j].pc = "wait"
        /\ hist[j].snap.status = "retry"
        /\ subs[j].deadline = subs[i].deadline + TickMs


\* C23: a delayed-success endpoint call commits its record only after its
\* delay has elapsed and before it returns; an endpoint call with the same key
\* that arrives while another call is in its delay finds the key absent and
\* takes the cache-miss branch; one that arrives when the key is committed
\* receives the cached record.
C23_DelayedCommit ==
    [][/\ \A i \in Subs :
              (subs[i].pc = "delayed" /\ subs'[i].pc # "delayed") =>
                  /\ now >= subs[i].deadline
                  /\ subs[i].deadline >= subs[i].submission.timestamp + minDelay
                  /\ ~\E k \in DOMAIN idempotencyStore :
                         idempotencyStore[k].id = subs[i].submission.id
                  /\ StoreHas(idempotencyStore', subs[i].idempotencyKey)
                  /\ idempotencyStore'[subs[i].idempotencyKey].id
                         = subs[i].submission.id
                  /\ subs'[i].pc = "resp"
                  /\ subs'[i].response.data
                         = idempotencyStore'[subs[i].idempotencyKey]
       /\ \A j \in 1..Len(subs') :
              hist'[j].calls > CallsBefore(j) =>
                  /\ (\E i \in Subs :
                          /\ i # j
                          /\ subs[i].pc = "delayed"
                          /\ subs[i].idempotencyKey = subs'[j].idempotencyKey)
                     => hist'[j].misses = MissesBefore(j) + 1
                  /\ StoreHas(idempotencyStore, subs'[j].idempotencyKey) =>
                         /\ hist'[j].misses = MissesBefore(j)
                         /\ subs'[j].response.data
                                = idempotencyStore[subs'[j].idempotencyKey]]_vars


\* C24: every accepted submission reaches its terminal state within
\* MAX_RETRIES * RETRY_DELAY + maxDelay (16000 ms) of its submit call: while
\* it runs no more than that has passed and its pending timer is due within
\* it.  At most one attempt of a submission waits in the delayed-success
\* branch: that call is the last one, and it ends the submission Succeeded.
WorstCase == MAX_RETRIES * RETRY_DELAY + maxDelay

C24_TerminatesWithinBound ==
    /\ [](\A i \in Subs :
              /\ Running(i) => now - SubmitTime(i) <= WorstCase
              /\ i \in Sleeping =>
                     subs[i].deadline - SubmitTime(i) <= WorstCase
              /\ subs[i].pc = "delayed" =>
                     subs[i].deadline - now <= maxDelay)
    /\ [][\A i \in Subs :
              ( \/ subs[i].pc = "delayed"
                \/ /\ subs[i].pc = "resp"
                   /\ subs[i].response.kind = "response"
                   /\ subs[i].response.success ) =>
                  /\ hist'[i].calls = hist[i].calls
                  /\ subs'[i].pc \in {"delayed", "resp", "done"}
                  /\ subs'[i].pc = "resp" => subs'[i].response.success
                  /\ subs'[i].pc = "done" =>
                         hist'[i].snap.status = "success"]_vars

C24_Witness ==
    \E i \in Subs :
        /\ hist[i].snap.status = "success"
        /\ hist[i].snap.retryCount = MAX_RETRIES
        /\ hist[i].failed = MAX_RETRIES
        /\ now - SubmitTime(i) = MAX_RETRIES * RETRY_DELAY + DelayOf(90)
        /\ submissionInProgressRef = Null


\* C25: whenever a submission terminates Succeeded, the record of its terminal
\* snapshot, which is the entry added to the submissions list, carries the
\* email and the amount of the form passed to that submit call, also when the
\* outcome came from the idempotency cache.
C25_SuccessCarriesRequest ==
    \A i \in Subs :
        hist[i].snap.status = "success" =>
            /\ hist[i].snap.email = subs[i].formData.email
            /\ hist[i].snap.amount = subs[i].formData.amount
            /\ \E n \in 1..Len(submissions) : submissions[n] = hist[i].snap


\* C26: isSubmitting is true in every state in which an accepted submission
\* has not reached its terminal state, and false when none is running: the
\* termination of one submission does not report the hook idle while another
\* is still in flight.
C26_FlagTracksRunning ==
    isSubmitting <=> \E i \in Subs : Running(i)

====
